---- MODULE Spec2Model ----
(***************************************************************************)
(* DRISHTI-SHIELD change-detection servers.                                *)
(*                                                                         *)
(* Two deployments are modelled: api_server.py ("full": the upload         *)
(* analyze endpoint and the monitor endpoint, both on                      *)
(* advanced_change_detection and convert_pixels_to_geojson) and            *)
(* api_server_simple.py ("simple": the auto analyze endpoint and the       *)
(* monitor endpoint, both on process_border_surveillance_images and        *)
(* convert_pixels_to_geojson_simple).                                      *)
(*                                                                         *)
(* Every handler is an `async def` without an await, so a request runs to  *)
(* completion before the next one starts: one action per handler.          *)
(*                                                                         *)
(* Number representation (Python floats become scaled integers):           *)
(*   area2       twice a cv2.contourArea value (contour areas are          *)
(*               multiples of 0.5)                                         *)
(*   confidence  millionths (ConfScale)                                    *)
(*   risk_score  ten-thousandths (RiskScale)                               *)
(*   ssim        thousandths (SsimScale)                                   *)
(*   lat / lng   micro-degrees, rounded down                               *)
(* The OpenCV / scikit-image results (the similarity score and the list of *)
(* contours found in the cleaned mask) are inputs drawn from bounded sets. *)
(* The narrative fields of a response (report_summary, warning_message)    *)
(* are free text computed from the other fields and are left out.          *)
(***************************************************************************)
EXTENDS Integers, Sequences, FiniteSets, TLC

VARIABLES
    server,             \* which module is deployed: "full" or "simple"
    pc,                 \* "idle" | "done"  (and "geo_call" | "geo_done" in SpecGeo)
    request,            \* the inputs of the handler invocation in progress
    detected_contours,  \* the handler's local detected_contours
    detection,          \* what the region-extraction call returned to the handler
    response,           \* what the caller receives
    static,             \* the static/ directory: file name -> request that wrote it
    issued,             \* request number -> the change_mask_url its response carried
    clock,              \* int(time.time())
    nreq                \* number of requests served so far

vars == <<server, pc, request, detected_contours, detection, response, static,
          issued, clock, nreq>>

----------------------------------------------------------------------------
(* Bounds of the model *)

MaxContours == 3
MaxRequests == 2
MaxClock == 1

(* Scales of the fixed-point representation *)

ConfScale == 1000000
RiskScale == 10000
SsimScale == 1000

(* Program constants *)

MinArea == 100
SsimWindow == 7
RiskMax == 10
FallbackSide == 512

\* Python's None
NoValue == [none |-> TRUE]
\* no file written
NoFile == <<>>

----------------------------------------------------------------------------
(* Fixed-point natural logarithm, used by numpy.log1p *)

Ln2Micro == 693147

RECURSIVE FloorLog2(_)
FloorLog2(n) == IF n < 2 THEN 0 ELSE 1 + FloorLog2(n \div 2)

RECURSIVE Pow2(_)
Pow2(k) == IF k = 0 THEN 1 ELSE 2 * Pow2(k - 1)

\* a * b / 10^6 for 0 <= a, b < 10^6, without leaving 32 bits
MulMicro(a, b) ==
    ((a \div 1000) * b) \div 1000 + ((a % 1000) * b) \div 1000000

\* num / den in millionths, for 0 <= num < den < 2^21
DivMicro(num, den) ==
    LET q == (1000 * num) \div den
        r == (1000 * num) % den
    IN  q * 1000 + (1000 * r) \div den

\* sum of z^k / k for odd k from k up to 13, zk = z^k
RECURSIVE AtanhSeries(_, _, _)
AtanhSeries(zk, z2, k) ==
    IF k > 13 \/ zk = 0 THEN 0
    ELSE zk \div k + AtanhSeries(MulMicro(zk, z2), z2, k + 2)

\* ln(n) in millionths for an integer n >= 1:
\* n = 2^k * m with 1 <= m < 2, ln n = k ln 2 + 2 atanh((m - 1) / (m + 1))
LnMicro(n) ==
    LET k == FloorLog2(n)
        p == Pow2(k)
        z == DivMicro(n - p, n + p)
    IN  k * Ln2Micro + 2 * AtanhSeries(z, MulMicro(z, z), 1)

\* numpy.log1p(area) in millionths: ln(1 + area2/2) = ln(area2 + 2) - ln 2
Log1pMicro(area2) == LnMicro(area2 + 2) - Ln2Micro

----------------------------------------------------------------------------
(* Inputs: image files, AOIs, and what OpenCV finds in the cleaned mask *)

\* A decoded image: its shape and the scene it shows.
Img(h, w, scene) == [h |-> h, w |-> w, scene |-> scene]

Missing == [file |-> "missing"]     \* the file does not exist
Corrupt == [file |-> "corrupt"]     \* cv2.imread returns None

BeforeImages ==
    {Img(480, 640, "t0"), Img(5, 5, "t0")}
AfterImages ==
    {Img(480, 640, "t0"), Img(512, 512, "t1")}

Decoded(f) == f \notin {Missing, Corrupt}

\* the second image of a request: one of AfterImages, or the very same
\* image as the first one
AfterChoices(before) ==
    IF Decoded(before) THEN AfterImages \cup {before} ELSE AfterImages

\* A contour returned by cv2.findContours, by what the handlers read of it:
\* cv2.contourArea (doubled) and cv2.boundingRect.
Contour(a2, x, y, w, h) == [area2 |-> a2, x |-> x, y |-> y, w |-> w, h |-> h]

Contours ==
    { Contour(199, 10, 10, 12, 11),         \* area 99.5: below the noise floor
      Contour(201, 40, 20, 12, 11),         \* area 100.5
      Contour(500, 100, 60, 20, 15),        \* area 250
      Contour(2400, 200, 150, 40, 32),      \* area 1200
      Contour(4000, 380, 60, 50, 42),       \* area 2000
      Contour(20000, 300, 300, 101, 101) }  \* area 10000

Range(s) == {s[i] : i \in DOMAIN s}

\* the sequences of at most n different elements of S
RECURSIVE SeqsUpTo(_, _)
SeqsUpTo(S, n) ==
    IF n = 0 THEN {<<>>}
    ELSE LET shorter == SeqsUpTo(S, n - 1)
         IN  shorter \cup UNION {{Append(s, e) : e \in S \ Range(s)} :
                                    s \in {t \in shorter : Len(t) = n - 1}}

ContourLists == SeqsUpTo(Contours, MaxContours)

\* 1.0, and the similarity score skimage reports for two different scenes.
SsimOne == SsimScale
SsimScores == {650}

Point(lat, lng) == [lat |-> lat, lng |-> lng]
Aoi(sw, ne) == [south_west |-> sw, north_east |-> ne]

DefaultAoi == Aoi(Point(31618500, 74893200), Point(31620500, 74895200))
InvertedAoi == Aoi(Point(31620500, 74895200), Point(31618500, 74893200))
FlatAoi == Aoi(Point(31618500, 74893200), Point(31618500, 74895200))
\* a valid box half a thousandth of a degree wide and high
TightAoi == Aoi(Point(31618500, 74893200), Point(31619000, 74893700))

\* a request body without the "aoi_bounds" key (NoValue is the key with null)
AbsentKey == [absent |-> TRUE]

\* aoi_bounds_json that json.loads rejects
BadJson == [bad_json |-> TRUE]

Locations == {"wagah"}

\* What the image-processing libraries can report for a pair of decoded
\* images that can be compared.  Different images give some score and some
\* contours.  For the same image on both sides every term of the ssim
\* quotient is computed twice from the same numbers, so the map is 1.0
\* everywhere and the score is 1.0; the full server's map is the constant
\* 255, whose Otsu threshold is 0 and whose inverse threshold is all zero,
\* and the simple server's absdiff is all zero, below the threshold 30: the
\* cleaned mask is empty in both paths and findContours returns nothing.
Analyses(before, after) ==
    IF before = after
    THEN {[ssim |-> SsimOne, contours |-> <<>>]}
    ELSE {[ssim |-> s, contours |-> cs] : s \in SsimScores, cs \in ContourLists}

----------------------------------------------------------------------------
(* src/pipeline/change_detection.py *)

contourArea2(c) == c.area2

\* skimage's structural_similarity raises ValueError when the default 7x7
\* window does not fit in the image.
SsimRaises(dims) == dims[1] < SsimWindow \/ dims[2] < SsimWindow

IsSignificantMutant(c) == contourArea2(c) > 0
\* `cv2.contourArea(c) > 100`
IsSignificant(c) == contourArea2(c) > 2 * MinArea

RECURSIVE Filter(_, _)
Filter(s, i) ==
    IF i > Len(s) THEN <<>>
    ELSE IF IsSignificant(s[i]) THEN <<s[i]>> \o Filter(s, i + 1)
         ELSE Filter(s, i + 1)

\* one OpenCV call applied to the mask on its way to the region list
Step(call, op, iterations) == [call |-> call, op |-> op, iterations |-> iterations]

\* the calls of advanced_change_detection from the thresholded mask to the
\* contours: opening with two iterations, then closing with two iterations
AdvancedSteps ==
    << Step("cv2.threshold", "THRESH_BINARY_INV|THRESH_OTSU", 1),
       Step("cv2.morphologyEx", "MORPH_OPEN", 2),
       Step("cv2.morphologyEx", "MORPH_CLOSE", 2),
       Step("cv2.findContours", "RETR_EXTERNAL", 1) >>

ExceptionResultMutant ==
    [mask |-> <<FallbackSide, FallbackSide>>, drawn |-> <<>>, score |-> 0,
     contours |-> <<>>, steps |-> <<>>]

\* `except Exception`: np.zeros((512, 512)), 1.0, []
ExceptionResult ==
    [mask |-> <<FallbackSide, FallbackSide>>, drawn |-> <<>>, score |-> SsimOne,
     contours |-> <<>>, steps |-> <<>>]

\* advanced_change_detection(before_path, after_path): final_mask (its shape
\* and the contours drawn filled on the zero canvas), score, significant
\* contours, and the steps that led to them.  Reading fails or ssim raises
\* before the first step on the mask, and any exception gives the
\* 512x512 zero mask, 1.0, [].
advanced_change_detection(before, after, analysis) ==
    IF ~Decoded(before) \/ ~Decoded(after) \/ SsimRaises(<<before.h, before.w>>)
    THEN ExceptionResult
    ELSE [mask |-> <<before.h, before.w>>,
          drawn |-> Filter(analysis.contours, 1),
          score |-> analysis.ssim,
          contours |-> Filter(analysis.contours, 1),
          steps |-> AdvancedSteps]

----------------------------------------------------------------------------
(* Shared arithmetic *)

Min(a, b) == IF a < b THEN a ELSE b
Max(a, b) == IF a > b THEN a ELSE b

\* sum(1 for d in fused_data if d["threat_level"] == level)
CountThreat(fused_data, level) ==
    Cardinality({i \in DOMAIN fused_data : fused_data[i].threat_level = level})

Raise(detail) == [status |-> 500, detail |-> detail]

----------------------------------------------------------------------------
(* src/utils/geo_utils.py *)

FeatureOf(item, lng, lat) ==
    [lng |-> lng, lat |-> lat, type |-> item.type, class |-> item.class,
     confidence |-> item.confidence]

pixel_to_geoMutant(px2, py2, aoi_bounds, image_dims) ==
    LET min_lng == aoi_bounds.south_west.lng
        min_lat == aoi_bounds.south_west.lat
        span_lng == aoi_bounds.north_east.lng - min_lng
        span_lat == aoi_bounds.north_east.lat - min_lat
    IN  <<min_lng + (px2 * span_lng) \div (2 * image_dims[2]),
          min_lat + (py2 * span_lat) \div (2 * image_dims[1])>>

\* pixel_to_geo(px, py) with px = px2 / 2, py = py2 / 2; image_dims is
\* (height, width).  Returns <<lng, lat>>, each rounded down to a micro-degree.
pixel_to_geo(px2, py2, aoi_bounds, image_dims) ==
    LET min_lng == aoi_bounds.south_west.lng
        max_lat == aoi_bounds.north_east.lat
        span_lng == aoi_bounds.north_east.lng - min_lng
        span_lat == max_lat - aoi_bounds.south_west.lat
    IN  <<min_lng + (px2 * span_lng) \div (2 * image_dims[2]),
          max_lat + (-(py2 * span_lat)) \div (2 * image_dims[1])>>

HasBbox(item) == "bbox_pixels" \in DOMAIN item

RECURSIVE GeoFeatures(_, _, _, _)
GeoFeatures(pixel_data, i, aoi_bounds, image_dims) ==
    IF i > Len(pixel_data) THEN <<>>
    ELSE IF ~HasBbox(pixel_data[i])
         THEN GeoFeatures(pixel_data, i + 1, aoi_bounds, image_dims)
         ELSE LET b == pixel_data[i].bbox_pixels
                  g == pixel_to_geo(b[1] + b[3], b[2] + b[4], aoi_bounds, image_dims)
              IN  <<FeatureOf(pixel_data[i], g[1], g[2])>>
                  \o GeoFeatures(pixel_data, i + 1, aoi_bounds, image_dims)

\* convert_pixels_to_geojson(pixel_data, aoi_bounds, image_dims): the
\* FeatureCollection, or the exception Python raises: subscripting None
\* (TypeError) or dividing by a zero width or height (ZeroDivisionError),
\* which happens only when an item with a bbox is projected.
convert_pixels_to_geojson(pixel_data, aoi_bounds, image_dims) ==
    IF aoi_bounds = NoValue
    THEN [kind |-> "raise", error |-> "TypeError"]
    ELSE IF (image_dims[1] = 0 \/ image_dims[2] = 0)
            /\ \E i \in DOMAIN pixel_data : HasBbox(pixel_data[i])
    THEN [kind |-> "raise", error |-> "ZeroDivisionError"]
    ELSE [kind |-> "FeatureCollection",
          features |-> GeoFeatures(pixel_data, 1, aoi_bounds, image_dims)]

----------------------------------------------------------------------------
(* api_server.py *)

ClampRiskMutant(v) == Max(v, 0)
\* min(max(v, 0), 10)
ClampRisk(v) == Min(Max(v, 0), RiskMax * RiskScale)

\* (n * 1.5) + (total_area / 1000.0) + ((1.0 - ssim_score) * 10.0), clamped
WeightedRisk(n, total_area2, ssim_score) ==
    ClampRisk((n * 3 * RiskScale) \div 2
              + total_area2 * (RiskScale \div 2000)
              + ((SsimScale - ssim_score) * 10 * RiskScale) \div SsimScale)

\* (high * 4.0) + (medium * 2.0) + (n * 1.0), clamped
TierRisk(fused_data) ==
    ClampRisk((4 * CountThreat(fused_data, "HIGH")
               + 2 * CountThreat(fused_data, "MEDIUM")
               + Len(fused_data)) * RiskScale)

\* 0.9 + (np.log1p(area) / 10.0)
ConfidenceLog(area2) == (9 * ConfScale) \div 10 + Log1pMicro(area2) \div 10

ConfidenceLinearMutant(area2) ==
    Min((95 * ConfScale) \div 100, (7 * ConfScale) \div 10 - area2 * (ConfScale \div 4000))
\* min(0.95, 0.7 + (area / 2000.0))
ConfidenceLinear(area2) ==
    Min((95 * ConfScale) \div 100, (7 * ConfScale) \div 10 + area2 * (ConfScale \div 4000))

\* the class ladder and the threat_level expression of analyze_area_of_interest
AnalyzeClass(area2) ==
    IF area2 > 2 * 1000 THEN "Major Structure"
    ELSE IF area2 > 2 * 200 THEN "Vehicle / Site"
    ELSE "Minor Anomaly / Movement"

AnalyzeThreat(area2) ==
    IF area2 > 2 * 1000 THEN "HIGH"
    ELSE IF area2 > 2 * 200 THEN "MEDIUM"
    ELSE "LOW"

MonitorTierMutant(area2) ==
    IF area2 > 2 * 15000 THEN <<"Large Structure/Vehicle", "HIGH">>
    ELSE IF area2 > 2 * 800 THEN <<"Military Equipment", "MEDIUM">>
    ELSE IF area2 > 2 * 300 THEN <<"Personnel Movement", "MEDIUM">>
    ELSE <<"Minor Activity", "LOW">>
\* the ladder of monitor_satellite_data: <<class, threat_level>>
MonitorTier(area2) ==
    IF area2 > 2 * 1500 THEN <<"Large Structure/Vehicle", "HIGH">>
    ELSE IF area2 > 2 * 800 THEN <<"Military Equipment", "MEDIUM">>
    ELSE IF area2 > 2 * 300 THEN <<"Personnel Movement", "MEDIUM">>
    ELSE <<"Minor Activity", "LOW">>

\* one iteration of the fusing loop of analyze_area_of_interest
AnalyzeFuse(contour) ==
    [bbox_pixels |-> <<contour.x, contour.y, contour.x + contour.w, contour.y + contour.h>>,
     class |-> AnalyzeClass(contourArea2(contour)),
     confidence |-> ConfidenceLog(contourArea2(contour)),
     type |-> "New Anomaly",
     area_pixels |-> contourArea2(contour) \div 2,
     threat_level |-> AnalyzeThreat(contourArea2(contour))]

\* one iteration of the fusing loop of monitor_satellite_data
MonitorFuse(contour) ==
    [bbox_pixels |-> <<contour.x, contour.y, contour.x + contour.w, contour.y + contour.h>>,
     class |-> MonitorTier(contourArea2(contour))[1],
     confidence |-> ConfidenceLinear(contourArea2(contour)),
     type |-> "Real-Time Detection",
     area_pixels |-> contourArea2(contour) \div 2,
     threat_level |-> MonitorTier(contourArea2(contour))[2]]

RECURSIVE TotalArea2(_, _)
\* total_anomaly_area (doubled) accumulated over the contours from i on
TotalArea2(contours, i) ==
    IF i > Len(contours) THEN 0
    ELSE contourArea2(contours[i]) + TotalArea2(contours, i + 1)

LatestMask == <<"change_mask_latest.png">>
RealtimeMask(location, t) == <<"realtime_mask", location, t>>

\* The body of analyze_area_of_interest on one request: the response, the
\* local detected_contours, and the mask file written (NoFile if the
\* handler fails before cv2.imwrite).  An HTTPException raised inside the
\* try block is caught by `except Exception` and re-raised with status 500.
AnalyzeRun(req) ==
    IF req.aoi = BadJson
    THEN [response |-> Raise("Invalid AOI bounds JSON."), detected |-> <<>>,
          detection |-> NoValue, wrote |-> NoFile]
    ELSE IF ~Decoded(req.before)
    THEN [response |-> Raise("Could not read 'before' image."), detected |-> <<>>,
          detection |-> NoValue, wrote |-> NoFile]
    ELSE
    LET image_dims == <<req.before.h, req.before.w>>
        det == advanced_change_detection(req.before, req.after, req.analysis)
        fused_data == [i \in DOMAIN det.contours |-> AnalyzeFuse(det.contours[i])]
        num_anomalies == Len(fused_data)
        risk_score == WeightedRisk(num_anomalies,
                                   TotalArea2(det.contours, 1), det.score)
        geo == convert_pixels_to_geojson(fused_data, req.aoi, image_dims)
    IN  [response |->
            IF geo.kind = "raise" THEN Raise(geo.error)
            ELSE [status |-> 200,
                  change_mask_url |-> LatestMask,
                  anomalies_geojson |-> geo.features,
                  image_bounds |-> req.aoi,
                  risk_score |-> risk_score,
                  fused_data |-> fused_data,
                  has_changes |-> num_anomalies > 0],
         detected |-> det.contours,
         detection |-> det,
         wrote |-> LatestMask]

\* The body of monitor_satellite_data (api_server.py).
MonitorRun(req, now) ==
    IF req.before = Missing \/ req.after = Missing
    THEN [response |-> Raise("Simulation satellite images not found."),
          detected |-> <<>>, detection |-> NoValue, wrote |-> NoFile]
    ELSE IF ~Decoded(req.before) \/ ~Decoded(req.after)
    THEN [response |-> Raise("Could not read satellite images."),
          detected |-> <<>>, detection |-> NoValue, wrote |-> NoFile]
    ELSE
    LET image_dims == <<req.before.h, req.before.w>>
        det == advanced_change_detection(req.before, req.after, req.analysis)
        mask_filename == RealtimeMask(req.location, now)
        fused_data == [i \in DOMAIN det.contours |-> MonitorFuse(det.contours[i])]
        num_anomalies == Len(fused_data)
        risk_score == TierRisk(fused_data)
        geo == convert_pixels_to_geojson(fused_data, req.aoi, image_dims)
    IN  [response |->
            IF geo.kind = "raise" THEN Raise(geo.error)
            ELSE [status |-> 200,
                  change_mask_url |-> mask_filename,
                  anomalies_geojson |-> geo.features,
                  image_bounds |-> req.aoi,
                  risk_score |-> risk_score,
                  fused_data |-> fused_data,
                  has_changes |-> num_anomalies > 0],
         detected |-> det.contours,
         detection |-> det,
         wrote |-> mask_filename]

----------------------------------------------------------------------------
(* api_server_simple.py *)

TimedMask(t) == <<"change_mask", t>>

\* the calls of process_border_surveillance_images from the thresholded
\* difference to the contours: closing, then opening, one iteration each
SimpleSteps ==
    << Step("cv2.threshold", "THRESH_BINARY", 1),
       Step("cv2.morphologyEx", "MORPH_CLOSE", 1),
       Step("cv2.morphologyEx", "MORPH_OPEN", 1),
       Step("cv2.findContours", "RETR_EXTERNAL", 1) >>

\* `area > 100` in process_border_surveillance_images
IsSignificantSimple(c) == contourArea2(c) > 2 * MinArea

\* the dict appended to detected_changes
DetectedChange(c) ==
    [area |-> contourArea2(c) \div 2, bbox |-> <<c.x, c.y, c.w, c.h>>, contour |-> c]

RECURSIVE DetectedChanges(_, _)
DetectedChanges(s, i) ==
    IF i > Len(s) THEN <<>>
    ELSE IF IsSignificantSimple(s[i])
         THEN <<DetectedChange(s[i])>> \o DetectedChanges(s, i + 1)
         ELSE DetectedChanges(s, i + 1)

\* process_border_surveillance_images(): the exception it raises, or the
\* mask file it writes, the similarity score and detected_changes.
process_border_surveillance_images(before, after, analysis, now) ==
    IF before = Missing \/ after = Missing
    THEN [kind |-> "raise", error |-> "FileNotFoundError"]
    ELSE IF ~Decoded(before) \/ ~Decoded(after)
    THEN [kind |-> "raise", error |-> "ValueError"]
    ELSE IF SsimRaises(<<Min(before.h, after.h), Min(before.w, after.w)>>)
    THEN [kind |-> "raise", error |-> "ValueError"]
    ELSE [kind |-> "ok",
          mask_url |-> TimedMask(now),
          dims |-> <<Min(before.h, after.h), Min(before.w, after.w)>>,
          drawn |-> DetectedChanges(analysis.contours, 1),
          ssim_score |-> analysis.ssim,
          detected_changes |-> DetectedChanges(analysis.contours, 1),
          steps |-> SimpleSteps]

\* convert_pixels_to_geojson_simple(pixel_data, aoi_bounds): aoi_bounds is
\* read only inside the loop, so None raises only when there is an item.
convert_pixels_to_geojson_simple(pixel_data, aoi_bounds) ==
    IF aoi_bounds = NoValue /\ Len(pixel_data) > 0
    THEN [kind |-> "raise", error |-> "TypeError"]
    ELSE [kind |-> "FeatureCollection",
          features |->
            [i \in DOMAIN pixel_data |->
                FeatureOf(pixel_data[i],
                          aoi_bounds.south_west.lng + (i - 1) * 1000,
                          aoi_bounds.south_west.lat + (i - 1) * 1000)]]

\* min(0.95, 0.7 + (area / 2000.0)) on the integer area of detected_changes
ConfidenceSimple(area) ==
    Min((95 * ConfScale) \div 100, (7 * ConfScale) \div 10 + area * (ConfScale \div 2000))

AutoClass(area) ==
    IF area > 1000 THEN "Major Structure"
    ELSE IF area > 500 THEN "Vehicle / Equipment"
    ELSE IF area > 200 THEN "Personnel Movement"
    ELSE "Minor Activity"

AutoThreat(area) ==
    IF area > 1000 THEN "HIGH" ELSE IF area > 500 THEN "MEDIUM" ELSE "LOW"

\* one iteration of the fusing loop of analyze_area_of_interest_auto
AutoFuse(contour_data) ==
    [bbox_pixels |-> contour_data.bbox,
     class |-> AutoClass(contour_data.area),
     confidence |-> ConfidenceSimple(contour_data.area),
     type |-> "Computer Vision Detection",
     area_pixels |-> contour_data.area,
     threat_level |-> AutoThreat(contour_data.area)]

\* the ladder of monitor_satellite_data (api_server_simple.py)
MonitorTierSimple(area) ==
    IF area > 1500 THEN <<"Large Structure/Vehicle", "HIGH">>
    ELSE IF area > 800 THEN <<"Military Equipment", "MEDIUM">>
    ELSE IF area > 300 THEN <<"Personnel Movement", "MEDIUM">>
    ELSE <<"Minor Activity", "LOW">>

\* one iteration of the fusing loop of monitor_satellite_data (simple)
MonitorFuseSimple(contour_data) ==
    [bbox_pixels |-> contour_data.bbox,
     class |-> MonitorTierSimple(contour_data.area)[1],
     confidence |-> ConfidenceSimple(contour_data.area),
     type |-> "Real-Time Detection",
     area_pixels |-> contour_data.area,
     threat_level |-> MonitorTierSimple(contour_data.area)[2]]

RECURSIVE TotalArea(_, _)
\* total_anomaly_area accumulated over detected_changes from i on
TotalArea(detected_changes, i) ==
    IF i > Len(detected_changes) THEN 0
    ELSE detected_changes[i].area + TotalArea(detected_changes, i + 1)

\* The body of analyze_area_of_interest_auto; request.get takes the default
\* box only when the aoi_bounds key is missing, and a null stays None.
AutoRun(req, now) ==
    LET aoi_bounds == IF req.aoi = AbsentKey THEN DefaultAoi ELSE req.aoi
        p == process_border_surveillance_images(req.before, req.after, req.analysis, now)
    IN  IF p.kind = "raise"
        THEN [response |-> Raise(p.error), detected |-> <<>>, detection |-> p,
              wrote |-> NoFile]
        ELSE
        LET fused_data == [i \in DOMAIN p.detected_changes |->
                                AutoFuse(p.detected_changes[i])]
            num_anomalies == Len(fused_data)
            risk_score == WeightedRisk(num_anomalies,
                                       2 * TotalArea(p.detected_changes, 1),
                                       p.ssim_score)
            geo == convert_pixels_to_geojson_simple(fused_data, aoi_bounds)
        IN  [response |->
                IF geo.kind = "raise" THEN Raise(geo.error)
                ELSE [status |-> 200,
                      change_mask_url |-> p.mask_url,
                      anomalies_geojson |-> geo.features,
                      image_bounds |-> aoi_bounds,
                      risk_score |-> risk_score,
                      fused_data |-> fused_data,
                      has_changes |-> num_anomalies > 0,
                      ssim_similarity |-> p.ssim_score],
             detected |-> p.detected_changes,
             detection |-> p,
             wrote |-> p.mask_url]

\* The body of monitor_satellite_data (api_server_simple.py).
MonitorSimpleRun(req, now) ==
    LET p == process_border_surveillance_images(req.before, req.after, req.analysis, now)
    IN  IF p.kind = "raise"
        THEN [response |-> Raise(p.error), detected |-> <<>>, detection |-> p,
              wrote |-> NoFile]
        ELSE
        LET fused_data == [i \in DOMAIN p.detected_changes |->
                                MonitorFuseSimple(p.detected_changes[i])]
            num_anomalies == Len(fused_data)
            risk_score == TierRisk(fused_data)
            geo == convert_pixels_to_geojson_simple(fused_data, req.aoi)
        IN  [response |->
                IF geo.kind = "raise" THEN Raise(geo.error)
                ELSE [status |-> 200,
                      change_mask_url |-> p.mask_url,
                      anomalies_geojson |-> geo.features,
                      image_bounds |-> req.aoi,
                      risk_score |-> risk_score,
                      fused_data |-> fused_data,
                      has_changes |-> num_anomalies > 0],
             detected |-> p.detected_changes,
             detection |-> p,
             wrote |-> p.mask_url]

----------------------------------------------------------------------------
(* The servers as a state machine *)

Init ==
    /\ server \in {"full", "simple"}
    /\ pc = "idle"
    /\ request = NoValue
    /\ detected_contours = <<>>
    /\ detection = NoValue
    /\ response = NoValue
    /\ static = <<>>
    /\ issued = <<>>
    /\ clock = 0
    /\ nreq = 0

\* the library results that can accompany a pair of image files compared at
\* size dims
AnalysisInputs(before, after, dims) ==
    IF Decoded(before) /\ Decoded(after) /\ ~SsimRaises(dims)
    THEN Analyses(before, after)
    ELSE {NoValue}

\* a handler finishes: its response, its locals and the file it wrote
Finish(req, run) ==
    /\ request' = req
    /\ response' = run.response
    /\ detected_contours' = run.detected
    /\ detection' = run.detection
    /\ static' = IF run.wrote = NoFile THEN static
                 ELSE (run.wrote :> (nreq + 1)) @@ static
    /\ issued' = IF run.response.status = 200
                 THEN ((nreq + 1) :> run.response.change_mask_url) @@ issued
                 ELSE issued
    /\ nreq' = nreq + 1
    /\ pc' = "done"
    /\ UNCHANGED <<server, clock>>

\* POST /api/v1/analyze_aoi (api_server.py)
analyze_area_of_interest ==
    /\ server = "full" /\ pc = "idle" /\ nreq < MaxRequests
    /\ \E aoi \in {BadJson, NoValue, DefaultAoi, TightAoi, InvertedAoi},
          before \in BeforeImages \cup {Corrupt} :
        \E after \in AfterChoices(before) \cup {Corrupt} :
        \E analysis \in AnalysisInputs(before, after,
                            IF Decoded(before) THEN <<before.h, before.w>> ELSE <<0, 0>>) :
            LET req == [endpoint |-> "analyze_aoi", aoi |-> aoi, before |-> before,
                        after |-> after, analysis |-> analysis]
            IN  Finish(req, AnalyzeRun(req))

\* POST /api/v1/analyze_aoi/monitor (api_server.py)
monitor_satellite_data ==
    /\ server = "full" /\ pc = "idle" /\ nreq < MaxRequests
    /\ \E aoi \in {NoValue, DefaultAoi, TightAoi, InvertedAoi},
          location \in Locations,
          before \in BeforeImages \cup {Missing, Corrupt} :
        \E after \in AfterChoices(before) \cup {Missing, Corrupt} :
        \E analysis \in AnalysisInputs(before, after,
                            IF Decoded(before) THEN <<before.h, before.w>> ELSE <<0, 0>>) :
            LET req == [endpoint |-> "monitor", aoi |-> aoi, location |-> location,
                        before |-> before, after |-> after, analysis |-> analysis]
            IN  Finish(req, MonitorRun(req, clock))

SimpleDims(before, after) ==
    IF Decoded(before) /\ Decoded(after)
    THEN <<Min(before.h, after.h), Min(before.w, after.w)>>
    ELSE <<0, 0>>

\* POST /api/v1/analyze_aoi_auto (api_server_simple.py)
analyze_area_of_interest_auto ==
    /\ server = "simple" /\ pc = "idle" /\ nreq < MaxRequests
    /\ \E aoi \in {AbsentKey, NoValue, DefaultAoi, TightAoi, InvertedAoi},
          before \in BeforeImages \cup {Missing, Corrupt} :
        \E after \in AfterChoices(before) \cup {Missing, Corrupt} :
        \E analysis \in AnalysisInputs(before, after, SimpleDims(before, after)) :
            LET req == [endpoint |-> "analyze_aoi_auto", aoi |-> aoi, before |-> before,
                        after |-> after, analysis |-> analysis]
            IN  Finish(req, AutoRun(req, clock))

\* POST /api/v1/analyze_aoi/monitor (api_server_simple.py)
monitor_satellite_data_simple ==
    /\ server = "simple" /\ pc = "idle" /\ nreq < MaxRequests
    /\ \E aoi \in {NoValue, DefaultAoi, TightAoi, InvertedAoi},
          location \in Locations,
          before \in BeforeImages \cup {Missing, Corrupt} :
        \E after \in AfterChoices(before) \cup {Missing, Corrupt} :
        \E analysis \in AnalysisInputs(before, after, SimpleDims(before, after)) :
            LET req == [endpoint |-> "monitor", aoi |-> aoi, location |-> location,
                        before |-> before, after |-> after, analysis |-> analysis]
            IN  Finish(req, MonitorSimpleRun(req, clock))

\* the response has gone to the caller; the handler's locals are dropped
ReturnToCaller ==
    /\ pc = "done"
    /\ pc' = "idle"
    /\ request' = NoValue
    /\ response' = NoValue
    /\ detected_contours' = <<>>
    /\ detection' = NoValue
    /\ UNCHANGED <<server, static, issued, clock, nreq>>

\* a second passes
Tick ==
    /\ pc = "idle" /\ clock < MaxClock
    /\ clock' = clock + 1
    /\ UNCHANGED <<server, pc, request, detected_contours, detection, response, static,
                   issued, nreq>>

Next ==
    \/ analyze_area_of_interest
    \/ monitor_satellite_data
    \/ analyze_area_of_interest_auto
    \/ monitor_satellite_data_simple
    \/ ReturnToCaller
    \/ Tick

Spec == Init /\ [][Next]_vars

----------------------------------------------------------------------------
(* The two geo-projection functions called directly, on any arguments *)

GeoDims == {<<480, 640>>, <<0, 640>>, <<480, 0>>}
GeoAois == {NoValue, DefaultAoi, InvertedAoi, FlatAoi}

GeoItem(bbox) ==
    [bbox_pixels |-> bbox, class |-> "Major Structure", confidence |-> ConfScale,
     type |-> "New Anomaly"]

\* items whose bbox centre is the pixel (0, 0), the pixel (width, height) and
\* an inner pixel, and an item without a bbox
GeoItems(image_dims) ==
    { GeoItem(<<0, 0, 0, 0>>),
      GeoItem(<<0, 0, 2 * image_dims[2], 2 * image_dims[1]>>),
      GeoItem(<<100, 60, 120, 75>>),
      [class |-> "Major Structure", confidence |-> ConfScale, type |-> "New Anomaly"] }

InitGeo ==
    /\ server = "library"
    /\ pc = "geo_call"
    /\ \E image_dims \in GeoDims, aoi_bounds \in GeoAois :
        \E pixel_data \in SeqsUpTo(GeoItems(image_dims), MaxContours) :
            request = [pixel_data |-> pixel_data, aoi_bounds |-> aoi_bounds,
                       image_dims |-> image_dims]
    /\ detected_contours = <<>>
    /\ detection = NoValue
    /\ response = NoValue
    /\ static = <<>>
    /\ issued = <<>>
    /\ clock = 0
    /\ nreq = 0

call_convert_pixels_to_geojson ==
    /\ pc = "geo_call"
    /\ pc' = "geo_done"
    /\ response' = [fn |-> "convert_pixels_to_geojson",
                    result |-> convert_pixels_to_geojson(request.pixel_data,
                                    request.aoi_bounds, request.image_dims)]
    /\ UNCHANGED <<server, request, detected_contours, detection, static, issued,
                   clock, nreq>>

call_convert_pixels_to_geojson_simple ==
    /\ pc = "geo_call"
    /\ pc' = "geo_done"
    /\ response' = [fn |-> "convert_pixels_to_geojson_simple",
                    result |-> convert_pixels_to_geojson_simple(request.pixel_data,
                                    request.aoi_bounds)]
    /\ UNCHANGED <<server, request, detected_contours, detection, static, issued,
                   clock, nreq>>

NextGeo ==
    \/ call_convert_pixels_to_geojson
    \/ call_convert_pixels_to_geojson_simple

SpecGeo == InitGeo /\ [][NextGeo]_vars

----------------------------------------------------------------------------
(* create_placeholder_mask (api_server_simple.py), which no route calls,   *)
(* called directly on a static/ directory in any state                     *)

PlaceholderMask == <<"placeholder_mask.png">>

\* the file names create_placeholder_mask can be given: its default and the
\* name of a mask a request wrote
PlaceholderNames == {PlaceholderMask, TimedMask(0)}

\* create_placeholder_mask(filename): img.save writes static/<filename> and
\* the function returns its URL; when anything raises (static/ is absent)
\* the bare except returns the URL of the default name and nothing is
\* written.  The file is written by no request (writer 0).
create_placeholder_mask_result(filename, static_exists, dir) ==
    IF static_exists
    THEN [url |-> filename, dir |-> (filename :> 0) @@ dir]
    ELSE [url |-> PlaceholderMask, dir |-> dir]

InitPlaceholder ==
    /\ server = "library"
    /\ pc = "placeholder_call"
    /\ \E filename \in PlaceholderNames, static_exists \in BOOLEAN :
            request = [filename |-> filename, static_exists |-> static_exists]
    /\ detected_contours = <<>>
    /\ detection = NoValue
    /\ response = NoValue
    /\ \E files \in SUBSET {TimedMask(0), TimedMask(1), LatestMask} :
            static = IF request.static_exists THEN [f \in files |-> 1] ELSE <<>>
    /\ issued = <<>>
    /\ clock = 0
    /\ nreq = 0

create_placeholder_mask ==
    /\ pc = "placeholder_call"
    /\ LET r == create_placeholder_mask_result(request.filename,
                                               request.static_exists, static)
       IN  /\ static' = r.dir
           /\ response' = [fn |-> "create_placeholder_mask", result |-> r.url]
    /\ pc' = "placeholder_done"
    /\ UNCHANGED <<server, request, detected_contours, detection, issued, clock, nreq>>

NextPlaceholder == create_placeholder_mask

SpecPlaceholder == InitPlaceholder /\ [][NextPlaceholder]_vars

----------------------------------------------------------------------------
(* Properties *)

Answered == pc = "done" /\ response.status = 200

\* twice the contour area of the i-th detected region, whichever server
\* detected it
DetectedArea2(d) == IF "contour" \in DOMAIN d THEN d.contour.area2 ELSE d.area2

\* the size at which the two images of a request are compared
ComparedDims(req) ==
    IF server = "full" THEN <<req.before.h, req.before.w>>
    ELSE <<Min(req.before.h, req.after.h), Min(req.before.w, req.after.w)>>

\* C1: the risk_score of every response lies in [0, 10], under the weighted
\* linear policy and under the threat-tier-count policy.
RiskScoreInRange ==
    Answered => /\ 0 <= response.risk_score
                /\ response.risk_score <= RiskMax * RiskScale

\* C1 witness: a tier-count response whose unclamped sum exceeds 10.
RiskScoreClampedWitness ==
    /\ Answered
    /\ request.endpoint = "monitor"
    /\ 4 * CountThreat(response.fused_data, "HIGH")
         + 2 * CountThreat(response.fused_data, "MEDIUM")
         + Len(response.fused_data) > RiskMax
    /\ response.risk_score = RiskMax * RiskScale

\* C2: every emitted anomaly has area_pixels at or above the noise floor, and
\* so has every region kept by region extraction.
AnomaliesAboveNoiseFloor ==
    Answered =>
        /\ \A i \in DOMAIN response.fused_data :
                response.fused_data[i].area_pixels >= MinArea
        /\ \A i \in DOMAIN detected_contours :
                DetectedArea2(detected_contours[i]) >= 2 * MinArea
        /\ Len(response.fused_data) = Len(detected_contours)
        /\ Len(response.anomalies_geojson) = Len(detected_contours)

\* C2 witness: the mask held a region below the floor, which was dropped, and
\* a region just above it, which was emitted with area_pixels = 100.
NoiseDroppedWitness ==
    /\ Answered
    /\ request.analysis # NoValue
    /\ \E i \in DOMAIN request.analysis.contours :
            request.analysis.contours[i].area2 < 2 * MinArea
    /\ \E i \in DOMAIN response.fused_data :
            response.fused_data[i].area_pixels = MinArea
    /\ Len(response.fused_data) < Len(request.analysis.contours)

\* C3: every emitted anomaly's confidence lies in [0, 1].
ConfidenceInUnitInterval ==
    Answered =>
        \A i \in DOMAIN response.fused_data :
            /\ 0 <= response.fused_data[i].confidence
            /\ response.fused_data[i].confidence <= ConfScale

\* C4: within a response, a region of larger (or equal) contour area never
\* has a smaller confidence.
ConfidenceMonotoneInArea ==
    Answered =>
        \A i, j \in DOMAIN response.fused_data :
            DetectedArea2(detected_contours[i]) <= DetectedArea2(detected_contours[j])
                => response.fused_data[i].confidence <= response.fused_data[j].confidence

\* C4 witness: two regions of different area, the larger with the strictly
\* larger confidence.
ConfidenceGrowsWitness ==
    /\ Answered
    /\ \E i, j \in DOMAIN response.fused_data :
            /\ DetectedArea2(detected_contours[i]) < DetectedArea2(detected_contours[j])
            /\ response.fused_data[i].confidence < response.fused_data[j].confidence

\* C5: an anomaly is HIGH if and only if its area is greater than 1000 px,
\* in every endpoint.
HighIffAbove1000 ==
    Answered =>
        \A i \in DOMAIN response.fused_data :
            (response.fused_data[i].threat_level = "HIGH")
                <=> (DetectedArea2(detected_contours[i]) > 2 * 1000)

\* C6: an anomaly classified "Vehicle / Site" or "Personnel Movement" has
\* threat_level MEDIUM, in every endpoint.
MediumClassesAreMedium ==
    Answered =>
        \A i \in DOMAIN response.fused_data :
            response.fused_data[i].class \in {"Vehicle / Site", "Personnel Movement"}
                => response.fused_data[i].threat_level = "MEDIUM"

\* the bounding rectangle of the i-th detected region, whichever server
\* detected it
DetectedRect(d) == IF "contour" \in DOMAIN d THEN d.contour ELSE d

\* C7: the FeatureCollection holds one Point per anomaly, in anomaly order,
\* at the centre of the anomaly's bounding box by linear interpolation
\* inside the AOI, in every server.
OnePointPerAnomalyAtCentre ==
    Answered =>
        /\ Len(response.anomalies_geojson) = Len(response.fused_data)
        /\ \A i \in DOMAIN response.anomalies_geojson :
            LET r == DetectedRect(detected_contours[i])
                dims == ComparedDims(request)
                sw == response.image_bounds.south_west
                ne == response.image_bounds.north_east
            IN  /\ response.anomalies_geojson[i].lng
                     = sw.lng + ((2 * r.x + r.w) * (ne.lng - sw.lng)) \div (2 * dims[2])
                /\ response.anomalies_geojson[i].lat
                     = ne.lat + (-((2 * r.y + r.h) * (ne.lat - sw.lat))) \div (2 * dims[1])

\* the position among the features of the item at position i of pixel_data
FeatureIndex(pixel_data, i) == Cardinality({j \in 1..i : HasBbox(pixel_data[j])})

Projected ==
    /\ pc = "geo_done"
    /\ response.fn = "convert_pixels_to_geojson"
    /\ response.result.kind = "FeatureCollection"

\* C8: convert_pixels_to_geojson maps a bbox centred on pixel (0, 0) to
\* (south_west.lng, north_east.lat) and a bbox centred on (width, height) to
\* (north_east.lng, south_west.lat).
CornersMapToAoiCorners ==
    Projected =>
        \A i \in DOMAIN request.pixel_data :
            HasBbox(request.pixel_data[i]) =>
                LET b == request.pixel_data[i].bbox_pixels
                    f == response.result.features[FeatureIndex(request.pixel_data, i)]
                    sw == request.aoi_bounds.south_west
                    ne == request.aoi_bounds.north_east
                IN  /\ (b[1] + b[3] = 0 /\ b[2] + b[4] = 0)
                        => (f.lng = sw.lng /\ f.lat = ne.lat)
                    /\ (b[1] + b[3] = 2 * request.image_dims[2]
                        /\ b[2] + b[4] = 2 * request.image_dims[1])
                        => (f.lng = ne.lng /\ f.lat = sw.lat)

\* C8 witness: both corners were projected into a valid AOI.
CornersProjectedWitness ==
    /\ Projected
    /\ request.aoi_bounds = DefaultAoi
    /\ \E i, j \in DOMAIN request.pixel_data :
        /\ request.pixel_data[i] = GeoItem(<<0, 0, 0, 0>>)
        /\ request.pixel_data[j] = GeoItem(<<0, 0, 2 * 640, 2 * 480>>)
        /\ response.result.features[FeatureIndex(request.pixel_data, i)].lat
                = DefaultAoi.north_east.lat
        /\ response.result.features[FeatureIndex(request.pixel_data, j)].lng
                = DefaultAoi.north_east.lng

InvalidAoi(aoi) ==
    /\ aoi # NoValue
    /\ \/ aoi.north_east.lat <= aoi.south_west.lat
       \/ aoi.north_east.lng <= aoi.south_west.lng

\* C9: geo-projection fails, and produces no FeatureCollection, whenever the
\* image width or height is 0 or the AOI violates its invariant, whatever
\* the number of anomalies.
ProjectionFailsOnInvalidInput ==
    (/\ pc = "geo_done"
     /\ \/ (response.fn = "convert_pixels_to_geojson"
            /\ (request.image_dims[1] = 0 \/ request.image_dims[2] = 0))
        \/ InvalidAoi(request.aoi_bounds))
        => response.result.kind = "raise"

\* the images of a request cannot be decoded, or their similarity cannot be
\* computed
AnalysisFails(req) ==
    \/ ~Decoded(req.before)
    \/ ~Decoded(req.after)
    \/ SsimRaises(ComparedDims(req))

\* C10: when an input image cannot be decoded or the similarity computation
\* fails, the run ends in a failure reported to the caller, never in a
\* successful response.
AnalysisFailureIsReported ==
    (pc = "done" /\ AnalysisFails(request)) => response.status # 200

\* the handler of the full server got as far as calling
\* advanced_change_detection
ReachedExtraction ==
    /\ pc = "done" /\ server = "full"
    /\ request.aoi # BadJson
    /\ Decoded(request.before)
    /\ request.endpoint = "monitor" => Decoded(request.after)

\* C11: when an image cannot be decoded or the similarity computation fails
\* inside advanced_change_detection, the function does not raise: it returns
\* the all-zero mask, the score exactly 1.0 and no regions, and
\* classification, scoring and projection run on the empty anomaly set.
ExtractionFailureGivesEmptyResult ==
    (ReachedExtraction /\ AnalysisFails(request)) =>
        /\ detection # NoValue
        /\ detection.mask = <<FallbackSide, FallbackSide>>
        /\ detection.drawn = <<>>
        /\ detection.score = SsimScale
        /\ detection.contours = <<>>
        /\ detected_contours = <<>>
        /\ request.aoi # NoValue => response.status = 200
        /\ response.status = 200 =>
                /\ response.fused_data = <<>>
                /\ response.anomalies_geojson = <<>>
                /\ response.risk_score = 0
                /\ ~response.has_changes

\* C11 witness: the uploaded 'after' image is unreadable and the caller gets
\* a response without anomalies.
ExtractionFailedWitness ==
    /\ ReachedExtraction
    /\ request.endpoint = "analyze_aoi" /\ request.after = Corrupt
    /\ detection.score = SsimScale
    /\ response.status = 200
    /\ response.fused_data = <<>>

\* the similarity score the region extraction handed to the handler
SimilarityScore ==
    IF server = "full" THEN detection.score ELSE detection.ssim_score

\* the two images of the request are the same decoded image
IdenticalImages ==
    /\ pc = "done"
    /\ Decoded(request.before)
    /\ request.before = request.after

\* C12: for two identical input images the run reports similarity 1.0, an
\* empty anomaly list, risk score 0 and has_changes false.
IdenticalImagesGiveNoChange ==
    IdenticalImages =>
        /\ response.status = 200
        /\ SimilarityScore = SsimScale
        /\ detected_contours = <<>>
        /\ response.fused_data = <<>>
        /\ response.anomalies_geojson = <<>>
        /\ response.risk_score = 0
        /\ ~response.has_changes
        /\ request.endpoint = "analyze_aoi_auto" => response.ssim_similarity = SsimScale

\* the region extraction of the request found exactly one region, of
\* contour area 10000 px
OneLargeRegion ==
    /\ request.analysis # NoValue
    /\ Len(request.analysis.contours) = 1
    /\ contourArea2(request.analysis.contours[1]) = 2 * 10000

\* C13: a run whose extraction yields exactly one region of about 10000 px
\* emits exactly one anomaly, classified HIGH by every endpoint's table, with
\* risk score above 0; and any run that emits an anomaly has risk score above
\* 0 under both scoring policies.
LargeRegionIsHighWithRisk ==
    Answered =>
        /\ Len(response.fused_data) >= 1 => response.risk_score > 0
        /\ OneLargeRegion =>
                /\ Len(response.fused_data) = 1
                /\ response.fused_data[1].threat_level = "HIGH"
                /\ response.fused_data[1].area_pixels = 10000
                /\ response.risk_score > 0

\* C13 witness: the monitor endpoint of the full server reported the single
\* 10000 px region as HIGH with the tier-count score 4 + 1.
LargeRegionWitness ==
    /\ Answered
    /\ server = "full" /\ request.endpoint = "monitor"
    /\ OneLargeRegion
    /\ response.fused_data[1].threat_level = "HIGH"
    /\ response.risk_score = 5 * RiskScale

\* what the other endpoint of the same server answers to the images, the
\* extraction results and the AOI of the request just served
SiblingResponse ==
    LET req == [endpoint |-> "sibling",
                aoi |-> IF request.aoi = AbsentKey THEN NoValue ELSE request.aoi,
                location |-> "wagah",
                before |-> request.before, after |-> request.after,
                analysis |-> request.analysis]
    IN  IF server = "full"
        THEN IF request.endpoint = "analyze_aoi"
             THEN MonitorRun(req, clock).response
             ELSE AnalyzeRun(req).response
        ELSE IF request.endpoint = "analyze_aoi_auto"
             THEN MonitorSimpleRun(req, clock).response
             ELSE AutoRun(req, clock).response

\* C14: within one server module the analyze endpoint and the monitor
\* endpoint use the same risk-scoring policy: for the same regions and the
\* same similarity score they produce the same risk score.
SameRiskInBothEndpoints ==
    (Answered /\ SiblingResponse.status = 200) =>
        response.risk_score = SiblingResponse.risk_score

\* C15: distinct runs write their masks to distinct file names, so the file
\* at the change_mask_url a run returned is always the mask that run wrote,
\* never one written over it by another run, also for two runs in the same
\* second.
MaskUrlServesOwnMask ==
    \A k \in DOMAIN issued :
        /\ issued[k] \in DOMAIN static
        /\ static[issued[k]] = k

\* C16: every anomaly's bbox_pixels is the corner form (x1, y1, x2, y2) of
\* its region's bounding rectangle, with 0 <= x1 <= x2 <= width and
\* 0 <= y1 <= y2 <= height, and its area_pixels is an integer of at least 1,
\* in every endpoint of every server.
BboxInCornerForm ==
    Answered =>
        \A i \in DOMAIN response.fused_data :
            LET b == response.fused_data[i].bbox_pixels
                r == DetectedRect(detected_contours[i])
                dims == ComparedDims(request)
            IN  /\ b = <<r.x, r.y, r.x + r.w, r.y + r.h>>
                /\ 0 <= b[1] /\ b[1] <= b[3] /\ b[3] <= dims[2]
                /\ 0 <= b[2] /\ b[2] <= b[4] /\ b[4] <= dims[1]
                /\ response.fused_data[i].area_pixels >= 1

\* C17: for a valid AOI and any number of anomalies, every GeoJSON point of
\* the response lies within the AOI, in every server.
PointsInsideAoi ==
    (Answered /\ response.image_bounds # NoValue /\ ~InvalidAoi(response.image_bounds)) =>
        \A i \in DOMAIN response.anomalies_geojson :
            LET f == response.anomalies_geojson[i]
                sw == response.image_bounds.south_west
                ne == response.image_bounds.north_east
            IN  /\ sw.lng <= f.lng /\ f.lng <= ne.lng
                /\ sw.lat <= f.lat /\ f.lat <= ne.lat

\* the i-th step is the morphological operation op
IsMorph(steps, i, op) ==
    steps[i].call = "cv2.morphologyEx" /\ steps[i].op = op

\* C18: in every region-extraction path the mask is cleaned by opening first
\* and closing second, never closing before opening, each with at least one
\* iteration, before the connected regions are extracted.
OpeningBeforeClosing ==
    (pc = "done" /\ detection # NoValue /\ "steps" \in DOMAIN detection) =>
        LET steps == detection.steps
        IN  \A k \in DOMAIN steps :
                steps[k].call = "cv2.findContours" =>
                    /\ \E i, j \in 1..(k - 1) :
                            /\ i < j
                            /\ IsMorph(steps, i, "MORPH_OPEN")
                            /\ IsMorph(steps, j, "MORPH_CLOSE")
                            /\ steps[i].iterations >= 1
                            /\ steps[j].iterations >= 1
                    /\ \A j \in 1..(k - 1) :
                            IsMorph(steps, j, "MORPH_CLOSE") =>
                                \E i \in 1..(j - 1) : IsMorph(steps, i, "MORPH_OPEN")

====
